---- MODULE Spec2Model ----
(***************************************************************************)
(* Model of .ai/scripts/parse_tasks.py: the Task model, the line parser    *)
(* parse_tasks and the three schedulers get_executable_tasks,              *)
(* topological_sort and get_parallel_tasks.                                *)
(*                                                                         *)
(* Strings are sequences of one-character strings, so that ids keep the    *)
(* order Python gives to str (code points, shorter prefix first).  Task    *)
(* objects live in the list `tasks`; a reference to a Task is its index in *)
(* that list, so two tasks with equal fields are still two objects.        *)
(***************************************************************************)
EXTENDS Integers, Sequences, FiniteSets, TLC

VARIABLES
    tasks,            \* the List[Task] handed to a scheduler function
    pc,               \* position of the running call
    fn,               \* the function that was called ("none" before a call)
    task_map,         \* dict id -> Task (reference) of the running call
    i,                \* get_executable_tasks: position of `for task in tasks`
    executable,       \* get_executable_tasks: list of Task references
    graph,            \* topological_sort: [keys, deps] of build_dependency_graph
    in_degree,        \* topological_sort: dict id -> int
    queue,            \* topological_sort: list of ids
    result,           \* topological_sort: list of Task references
    remaining,        \* get_parallel_tasks: list of Task references
    completed_ids,    \* get_parallel_tasks: set of ids
    parallel_groups,  \* get_parallel_tasks: list of lists of Task references
    content,          \* parse_tasks: the text handed to the parser
    lines,            \* parse_tasks: content.split('\n')
    ln,               \* parse_tasks: position of `for line in lines`
    current_task,     \* parse_tasks: reference to the open main task, 0 for None
    other,            \* the variables of a second, suspended invocation
    cli               \* main(): argv, the file system and the stage of the run

vars == <<tasks, pc, fn, task_map, i, executable, graph, in_degree, queue,
          result, remaining, completed_ids, parallel_groups,
          content, lines, ln, current_task, other, cli>>

----------------------------------------------------------------------------
(* Bounds of the model *)

MaxTasks == 3
MaxDeps == 2
MaxLines == 4

(* Ids the task lists are drawn from: "1", "2" and "10" *)
IdPool == {<<"1">>, <<"2">>, <<"1", "0">>}

(* Ids a depends_on entry is drawn from; an id is unknown in every list that
   holds no task carrying it *)
DepPool == IdPool

SeqsUpTo(S, n) == UNION {[1..k -> S] : k \in 0..n}

----------------------------------------------------------------------------
(* Python str order *)

Ord(c) ==
    CASE c = "0" -> 48 [] c = "1" -> 49 [] c = "2" -> 50 [] c = "3" -> 51
      [] c = "4" -> 52 [] c = "5" -> 53 [] c = "6" -> 54 [] c = "7" -> 55
      [] c = "8" -> 56 [] c = "9" -> 57

RECURSIVE StrLess(_, _)
StrLess(a, b) ==
    IF b = <<>> THEN FALSE
    ELSE IF a = <<>> THEN TRUE
    ELSE IF Ord(Head(a)) # Ord(Head(b)) THEN Ord(Head(a)) < Ord(Head(b))
    ELSE StrLess(Tail(a), Tail(b))

(* the queue left in insertion order *)
SortListNone(s) == s

(* list.sort() on a list of str: stable insertion into sorted position *)
RECURSIVE InsertSorted(_, _)
InsertSorted(s, x) ==
    IF s = <<>> THEN <<x>>
    ELSE IF StrLess(x, Head(s)) THEN <<x>> \o s
    ELSE <<Head(s)>> \o InsertSorted(Tail(s), x)

RECURSIVE SortList(_)
SortList(s) ==
    IF s = <<>> THEN <<>>
    ELSE InsertSorted(SortList(SubSeq(s, 1, Len(s) - 1)), s[Len(s)])

----------------------------------------------------------------------------
(* Task model *)

Task(id, title, completed) ==
    [id |-> id, title |-> title, completed |-> completed,
     depends_on |-> <<>>, subtasks |-> <<>>]

Range(s) == {s[k] : k \in DOMAIN s}

(* a map in which the first task with an id stays *)
TaskMapFirst(ts) ==
    [k \in {ts[n].id : n \in DOMAIN ts} |->
        CHOOSE n \in DOMAIN ts :
            /\ ts[n].id = k
            /\ \A m \in DOMAIN ts : ts[m].id = k => n <= m]

(* {t.id: t for t in tasks}: a later task with the same id replaces an earlier one *)
TaskMapOf(ts) ==
    [k \in {ts[n].id : n \in DOMAIN ts} |->
        CHOOSE n \in DOMAIN ts :
            /\ ts[n].id = k
            /\ \A m \in DOMAIN ts : ts[m].id = k => m <= n]

----------------------------------------------------------------------------
(* build_dependency_graph: a defaultdict(set) keyed by task id, in insertion
   order; every task's depends_on is added to the set kept under its id *)

(* a graph that leaves out a task's dependency on its own id *)
GraphAddNoSelf(g, t) ==
    [keys |-> IF t.id \in Range(g.keys) THEN g.keys ELSE Append(g.keys, t.id),
     deps |-> [k \in DOMAIN g.deps \cup {t.id} |->
                 (IF k \in DOMAIN g.deps THEN g.deps[k] ELSE {})
                 \cup (IF k = t.id THEN Range(t.depends_on) \ {t.id} ELSE {})]]

(* graph[task.id].update(task.depends_on), lines 95-98 *)
GraphAdd(g, t) ==
    [keys |-> IF t.id \in Range(g.keys) THEN g.keys ELSE Append(g.keys, t.id),
     deps |-> [k \in DOMAIN g.deps \cup {t.id} |->
                 (IF k \in DOMAIN g.deps THEN g.deps[k] ELSE {})
                 \cup (IF k = t.id THEN Range(t.depends_on) ELSE {})]]

RECURSIVE GraphFrom(_, _)
GraphFrom(ts, g) ==
    IF ts = <<>> THEN g ELSE GraphFrom(Tail(ts), GraphAdd(g, Head(ts)))

(* a graph of the tasks that are not completed *)
build_dependency_graph_open(ts) ==
    GraphFrom(SelectSeq(ts, LAMBDA t : ~t.completed),
              [keys |-> <<>>, deps |-> [k \in {} |-> {}]])

(* lines 92-99 *)
build_dependency_graph(ts) ==
    GraphFrom(ts, [keys |-> <<>>, deps |-> [k \in {} |-> {}]])

(* in_degree counted once per task that has dependencies, not once per dependency *)
InDegreeCapped(g) == [k \in DOMAIN g.deps |-> IF g.deps[k] = {} THEN 0 ELSE 1]

(* in_degree after lines 107-112: one increment per member of graph[task_id] *)
InDegreeOf(g) == [k \in DOMAIN g.deps |-> Cardinality(g.deps[k])]

(* queue = [tid for tid in graph if in_degree[tid] == 0] *)
InitialQueue(g, deg) == SelectSeq(g.keys, LAMBDA tid : deg[tid] = 0)

ResultIds(ts, res) == {ts[res[n]].id : n \in DOMAIN res}

(* the scan of graph.items() stopped after the first dependent found *)
RECURSIVE ReduceFirstOnly(_, _, _, _, _, _)
ReduceFirstOnly(g, n, current, deg, q, placed) ==
    IF n > Len(g.keys) THEN [in_degree |-> deg, queue |-> q]
    ELSE LET task_id == g.keys[n]
         IN  IF current \in g.deps[task_id]
             THEN LET deg1 == [deg EXCEPT ![task_id] = @ - 1]
                  IN  [in_degree |-> deg1,
                       queue |-> IF deg1[task_id] = 0 /\ task_id \notin placed
                                 THEN Append(q, task_id) ELSE q]
             ELSE ReduceFirstOnly(g, n + 1, current, deg, q, placed)

(* lines 126-130: for task_id, deps in graph.items(), from key n on *)
RECURSIVE ReduceInDegree(_, _, _, _, _, _)
ReduceInDegree(g, n, current, deg, q, placed) ==
    IF n > Len(g.keys) THEN [in_degree |-> deg, queue |-> q]
    ELSE LET task_id == g.keys[n]
         IN  IF current \in g.deps[task_id]
             THEN LET deg1 == [deg EXCEPT ![task_id] = @ - 1]
                      q1 == IF deg1[task_id] = 0 /\ task_id \notin placed
                            THEN Append(q, task_id) ELSE q
                  IN  ReduceInDegree(g, n + 1, current, deg1, q1, placed)
             ELSE ReduceInDegree(g, n + 1, current, deg, q, placed)

(* a dependency on an unknown id blocks the task *)
ExecDepsStrict(ts, tm, t) ==
    \A n \in DOMAIN t.depends_on :
        t.depends_on[n] \in DOMAIN tm /\ ts[tm[t.depends_on[n]]].completed

(* a dependency naming a subtask waits for that subtask *)
ExecDepsWithSubtasks(ts, tm, t) ==
    \A n \in DOMAIN t.depends_on :
        /\ ~(t.depends_on[n] \in DOMAIN tm /\ ~ts[tm[t.depends_on[n]]].completed)
        /\ \A m \in DOMAIN ts : \A k \in DOMAIN ts[m].subtasks :
            ts[m].subtasks[k].id = t.depends_on[n] => ts[m].subtasks[k].completed

(* get_executable_tasks, lines 144-148 *)
ExecDepsSatisfied(ts, tm, t) ==
    \A n \in DOMAIN t.depends_on :
        ~(t.depends_on[n] \in DOMAIN tm /\ ~ts[tm[t.depends_on[n]]].completed)

(* a dependency on an unknown id blocks the task *)
ParDepsStrict(tm, done, t) ==
    \A n \in DOMAIN t.depends_on : t.depends_on[n] \in done

(* any() in place of all() *)
ParDepsAny(tm, done, t) ==
    \/ t.depends_on = <<>>
    \/ \E n \in DOMAIN t.depends_on :
        t.depends_on[n] \in done \/ t.depends_on[n] \notin DOMAIN tm

(* get_parallel_tasks, lines 167-170 *)
ParDepsSatisfied(tm, done, t) ==
    \A n \in DOMAIN t.depends_on :
        t.depends_on[n] \in done \/ t.depends_on[n] \notin DOMAIN tm

(* a remaining list that keeps the completed tasks *)
NotCompletedAll(ts, n) == [k \in 1..(Len(ts) - n + 1) |-> n + k - 1]

(* a remaining list in reverse document order *)
RECURSIVE NotCompletedReversed(_, _)
NotCompletedReversed(ts, n) ==
    IF n > Len(ts) THEN <<>>
    ELSE NotCompletedReversed(ts, n + 1) \o (IF ts[n].completed THEN <<>> ELSE <<n>>)

(* remaining = [t for t in tasks if not t.completed], as references *)
RECURSIVE NotCompleted(_, _)
NotCompleted(ts, n) ==
    IF n > Len(ts) THEN <<>>
    ELSE (IF ts[n].completed THEN <<>> ELSE <<n>>) \o NotCompleted(ts, n + 1)

(* completed tasks forgotten *)
CompletedIdsNone(ts) == {}

(* completed_ids = {t.id for t in tasks if t.completed} *)
CompletedIdsOf(ts) == {ts[n].id : n \in {m \in DOMAIN ts : ts[m].completed}}

(* the list cut at the first element equal to x *)
RECURSIVE ListRemoveFrom(_, _)
ListRemoveFrom(s, x) ==
    IF s = <<>> THEN <<>>
    ELSE IF Head(s) = x THEN <<>>
    ELSE <<Head(s)>> \o ListRemoveFrom(Tail(s), x)

(* list.remove(x): drops the first element equal to x *)
RECURSIVE ListRemove(_, _)
ListRemove(s, x) ==
    IF s = <<>> THEN <<>>
    ELSE IF Head(s) = x THEN Tail(s)
    ELSE <<Head(s)>> \o ListRemove(Tail(s), x)

(* a marking that stops after the first task of the group *)
MarkGroupHeadOnly(ts, group, n, done, rem) ==
    [completed_ids |-> done \cup {ts[group[1]].id},
     remaining |-> ListRemove(rem, group[1]),
     raised |-> FALSE]

(* lines 181-183: for task in current_group, from position n on; list.remove
   raises ValueError when the element is absent *)
RECURSIVE MarkGroup(_, _, _, _, _)
MarkGroup(ts, group, n, done, rem) ==
    IF n > Len(group) THEN [completed_ids |-> done, remaining |-> rem, raised |-> FALSE]
    ELSE IF group[n] \notin Range(rem)
         THEN [completed_ids |-> done \cup {ts[group[n]].id}, remaining |-> rem,
               raised |-> TRUE]
         ELSE MarkGroup(ts, group, n + 1, done \cup {ts[group[n]].id},
                        ListRemove(rem, group[n]))

----------------------------------------------------------------------------
(* Inputs: every list of at most MaxTasks tasks, ids drawn from IdPool and
   depends_on from the lists of at most MaxDeps ids of DepPool in ascending
   order; duplicate ids, self-dependencies, cycles and unknown ids all occur *)

DepLists ==
    {ds \in SeqsUpTo(DepPool, MaxDeps) :
        \A j, k \in DOMAIN ds : j < k => StrLess(ds[j], ds[k])}

TaskPool ==
    {[id |-> d, title |-> <<"T">>, completed |-> c, depends_on |-> ds,
      subtasks |-> <<>>] :
        d \in IdPool, c \in BOOLEAN, ds \in DepLists}

TaskLists == SeqsUpTo(TaskPool, MaxTasks)

NoMap == [k \in {} |-> 0]

(* no second invocation *)
NoFrame == [pc |-> "absent"]

(* the functions are called directly, not through main() *)
NoCli == [stage |-> "absent"]
NoGraph == [keys |-> <<>>, deps |-> [k \in {} |-> {}]]

Init ==
    /\ tasks \in TaskLists
    /\ pc = "start"
    /\ fn = "none"
    /\ task_map = NoMap
    /\ i = 0
    /\ executable = <<>>
    /\ graph = NoGraph
    /\ in_degree = NoMap
    /\ queue = <<>>
    /\ result = <<>>
    /\ remaining = <<>>
    /\ completed_ids = {}
    /\ parallel_groups = <<>>
    /\ content = <<>>
    /\ lines = <<>>
    /\ ln = 0
    /\ current_task = 0
    /\ other = NoFrame
    /\ cli = NoCli

execVars == <<i, executable>>
topoVars == <<graph, in_degree, queue, result>>
parVars == <<remaining, completed_ids, parallel_groups>>
parseVars == <<content, lines, ln, current_task>>
schedVars == <<task_map, execVars, topoVars, parVars>>

(* get_executable_tasks, lines 136-137 *)
CallExecutable ==
    /\ pc = "start"
    /\ pc' = "executable_loop"
    /\ fn' = "get_executable_tasks"
    /\ task_map' = TaskMapOf(tasks)
    /\ executable' = <<>>
    /\ i' = 1
    /\ UNCHANGED <<tasks, topoVars, parVars, parseVars, other, cli>>

(* one pass of `for task in tasks`, lines 139-151 *)
ExecutableStep ==
    /\ pc = "executable_loop"
    /\ i <= Len(tasks)
    /\ executable' =
         IF tasks[i].completed THEN executable
         ELSE IF ExecDepsSatisfied(tasks, task_map, tasks[i])
              THEN Append(executable, i)
              ELSE executable
    /\ i' = i + 1
    /\ UNCHANGED <<tasks, pc, fn, task_map, topoVars, parVars, parseVars, other, cli>>

(* line 153 *)
ExecutableReturn ==
    /\ pc = "executable_loop"
    /\ i > Len(tasks)
    /\ pc' = "returned"
    /\ UNCHANGED <<tasks, fn, task_map, execVars, topoVars, parVars, parseVars, other, cli>>

(* topological_sort, lines 103-116 *)
CallTopological ==
    /\ pc = "start"
    /\ pc' = "topological_loop"
    /\ fn' = "topological_sort"
    /\ task_map' = TaskMapOf(tasks)
    /\ graph' = build_dependency_graph(tasks)
    /\ in_degree' = InDegreeOf(graph')
    /\ queue' = InitialQueue(graph', in_degree')
    /\ result' = <<>>
    /\ UNCHANGED <<tasks, execVars, parVars, parseVars, other, cli>>

(* one pass of `while queue`, lines 118-130 *)
TopologicalStep ==
    /\ pc = "topological_loop"
    /\ queue # <<>>
    /\ LET sorted == SortList(queue)
           current == Head(sorted)
           result1 == IF current \in DOMAIN task_map
                      THEN Append(result, task_map[current]) ELSE result
           after == ReduceInDegree(graph, 1, current, in_degree, Tail(sorted),
                                   ResultIds(tasks, result1))
       IN  /\ result' = result1
           /\ in_degree' = after.in_degree
           /\ queue' = after.queue
    /\ UNCHANGED <<tasks, pc, fn, task_map, graph, execVars, parVars, parseVars, other, cli>>

(* line 132 *)
TopologicalReturn ==
    /\ pc = "topological_loop"
    /\ queue = <<>>
    /\ pc' = "returned"
    /\ UNCHANGED <<tasks, fn, task_map, execVars, topoVars, parVars, parseVars, other, cli>>

(* get_parallel_tasks, lines 157-161 *)
CallParallel ==
    /\ pc = "start"
    /\ pc' = "parallel_loop"
    /\ fn' = "get_parallel_tasks"
    /\ task_map' = TaskMapOf(tasks)
    /\ remaining' = NotCompleted(tasks, 1)
    /\ completed_ids' = CompletedIdsOf(tasks)
    /\ parallel_groups' = <<>>
    /\ UNCHANGED <<tasks, execVars, topoVars, parseVars, other, cli>>

(* a marking that sets `completed` on the tasks of the group *)
InputMarkedCompleted(ts, group) ==
    [n \in DOMAIN ts |->
        IF n \in Range(group) THEN [ts[n] EXCEPT !.completed = TRUE] ELSE ts[n]]

(* the input list after lines 181-183: the group is marked in completed_ids
   and taken out of remaining, both built by the call (lines 158-159); no
   task and not the input list is written *)
InputAfterMark(ts, group) == ts

(* one pass of `while remaining`, lines 163-183; an empty group breaks out
   of the loop and returns *)
ParallelStep ==
    /\ pc = "parallel_loop"
    /\ remaining # <<>>
    /\ LET current_group ==
               SelectSeq(remaining,
                         LAMBDA r : ParDepsSatisfied(task_map, completed_ids, tasks[r]))
           marked == MarkGroup(tasks, current_group, 1, completed_ids, remaining)
       IN  IF current_group = <<>>
           THEN /\ pc' = "returned"
                /\ UNCHANGED parVars
                /\ UNCHANGED tasks
           ELSE /\ parallel_groups' = Append(parallel_groups, current_group)
                /\ completed_ids' = marked.completed_ids
                /\ remaining' = marked.remaining
                /\ tasks' = InputAfterMark(tasks, current_group)
                /\ pc' = IF marked.raised THEN "raised" ELSE pc
    /\ UNCHANGED <<fn, task_map, execVars, topoVars, parseVars, other, cli>>

(* line 185 *)
ParallelReturn ==
    /\ pc = "parallel_loop"
    /\ remaining = <<>>
    /\ pc' = "returned"
    /\ UNCHANGED <<tasks, fn, task_map, execVars, topoVars, parVars, parseVars, other, cli>>

Next ==
    \/ CallExecutable
    \/ ExecutableStep
    \/ ExecutableReturn
    \/ CallTopological
    \/ TopologicalStep
    \/ TopologicalReturn
    \/ CallParallel
    \/ ParallelStep
    \/ ParallelReturn

Spec == Init /\ [][Next]_vars

(* The interpreter runs a started call to its end *)
FairSpec == Spec /\ WF_vars(Next)

----------------------------------------------------------------------------
(* The three functions as functions of their argument; a result is a list of
   task references, as in the actions *)

(* the loop of lines 139-151 from task k on *)
RECURSIVE ExecutableFrom(_, _, _, _)
ExecutableFrom(ts, tm, k, acc) ==
    IF k > Len(ts) THEN acc
    ELSE ExecutableFrom(ts, tm, k + 1,
                        IF ~ts[k].completed /\ ExecDepsSatisfied(ts, tm, ts[k])
                        THEN Append(acc, k) ELSE acc)

(* lines 134-153 *)
get_executable_tasks(ts) == ExecutableFrom(ts, TaskMapOf(ts), 1, <<>>)

(* the loop of lines 118-130 *)
RECURSIVE TopologicalLoop(_, _, _, _, _, _)
TopologicalLoop(ts, tm, g, deg, q, res) ==
    IF q = <<>> THEN res
    ELSE LET sorted == SortList(q)
             current == Head(sorted)
             result1 == IF current \in DOMAIN tm
                        THEN Append(res, tm[current]) ELSE res
             after == ReduceInDegree(g, 1, current, deg, Tail(sorted),
                                     ResultIds(ts, result1))
         IN  TopologicalLoop(ts, tm, g, after.in_degree, after.queue, result1)

(* lines 101-132 *)
topological_sort(ts) ==
    LET g == build_dependency_graph(ts)
        deg == InDegreeOf(g)
    IN  TopologicalLoop(ts, TaskMapOf(ts), g, deg, InitialQueue(g, deg), <<>>)

(* the loop of lines 163-183; "raised" stands for the ValueError of
   remaining.remove *)
RECURSIVE ParallelLoop(_, _, _, _, _)
ParallelLoop(ts, tm, rem, done, groups) ==
    IF rem = <<>> THEN groups
    ELSE LET current_group ==
                 SelectSeq(rem, LAMBDA r : ParDepsSatisfied(tm, done, ts[r]))
             marked == MarkGroup(ts, current_group, 1, done, rem)
         IN  IF current_group = <<>> THEN groups
             ELSE IF marked.raised THEN "raised"
             ELSE ParallelLoop(ts, tm, marked.remaining, marked.completed_ids,
                               Append(groups, current_group))

(* lines 155-185 *)
get_parallel_tasks(ts) ==
    ParallelLoop(ts, TaskMapOf(ts), NotCompleted(ts, 1), CompletedIdsOf(ts), <<>>)

----------------------------------------------------------------------------
(* Task lists with subtasks, and call after call on the same list *)

MaxSubTasks == 2

(* the id of the subtasks: "1.1" *)
SubId == <<"1", ".", "1">>

(* tasks "1" and "2", open or completed, depending on nothing, on task "1"
   or on the id of the subtask, without subtasks or with the subtask "1.1",
   open or completed *)
SubTaskPool ==
    {[id |-> d, title |-> <<"T">>, completed |-> c, depends_on |-> ds,
      subtasks |-> ss] :
        d \in {<<"1">>, <<"2">>},
        c \in BOOLEAN,
        ds \in {<<>>, << <<"1">> >>, <<SubId>>},
        ss \in {<<>>, <<Task(SubId, <<"S">>, FALSE)>>,
                <<Task(SubId, <<"S">>, TRUE)>>}}

SubTaskLists == SeqsUpTo(SubTaskPool, MaxSubTasks)

SubInit ==
    /\ tasks \in SubTaskLists
    /\ pc = "start"
    /\ fn = "none"
    /\ task_map = NoMap
    /\ i = 0
    /\ executable = <<>>
    /\ graph = NoGraph
    /\ in_degree = NoMap
    /\ queue = <<>>
    /\ result = <<>>
    /\ remaining = <<>>
    /\ completed_ids = {}
    /\ parallel_groups = <<>>
    /\ content = <<>>
    /\ lines = <<>>
    /\ ln = 0
    /\ current_task = 0
    /\ other = NoFrame
    /\ cli = NoCli

(* the caller, holding the same list, is ready for its next call: the locals
   of the call that returned are gone *)
NextCall ==
    /\ pc = "returned"
    /\ fn # "parse_tasks"
    /\ pc' = "start"
    /\ fn' = "none"
    /\ task_map' = NoMap
    /\ i' = 0
    /\ executable' = <<>>
    /\ graph' = NoGraph
    /\ in_degree' = NoMap
    /\ queue' = <<>>
    /\ result' = <<>>
    /\ remaining' = <<>>
    /\ completed_ids' = {}
    /\ parallel_groups' = <<>>
    /\ UNCHANGED <<tasks, parseVars, other, cli>>

CallsNext ==
    \/ CallExecutable
    \/ ExecutableStep
    \/ ExecutableReturn
    \/ CallTopological
    \/ TopologicalStep
    \/ TopologicalReturn
    \/ CallParallel
    \/ ParallelStep
    \/ ParallelReturn
    \/ NextCall

CallsSpec == SubInit /\ [][CallsNext]_vars

----------------------------------------------------------------------------
(* parse_tasks: characters and the three line patterns *)

(* \s of the re module, on the characters of the model *)
IsSpace(c) == c \in {" ", "\t", "\n", "\r", "\f"}

(* \d of the re module, on the characters of the model *)
IsDigit(c) == c \in {"0", "1", "2", "3", "4", "5", "6", "7", "8", "9"}

At(s, p, c) == p <= Len(s) /\ s[p] = c

(* the literal lit stands in s at position p *)
HasAt(s, p, lit) == \A k \in DOMAIN lit : At(s, p + k - 1, lit[k])

(* first position from p on that holds no whitespace: a greedy \s* *)
RECURSIVE SkipSpaces(_, _)
SkipSpaces(s, p) ==
    IF p <= Len(s) /\ IsSpace(s[p]) THEN SkipSpaces(s, p + 1) ELSE p

(* first position from p on that holds no digit: a greedy \d* *)
RECURSIVE SkipDigits(_, _)
SkipDigits(s, p) ==
    IF p <= Len(s) /\ IsDigit(s[p]) THEN SkipDigits(s, p + 1) ELSE p

(* first position from p on that holds an underscore: a greedy [^_]* *)
RECURSIVE SkipToUnderscore(_, _)
SkipToUnderscore(s, p) ==
    IF p <= Len(s) /\ s[p] # "_" THEN SkipToUnderscore(s, p + 1) ELSE p

(* where the group of `\s*(.+)$` starts when the pattern is at position p of
   a line with at least one character left: after the whitespace, or at the
   last character when only whitespace is left *)
RestStart(s, p) ==
    IF SkipSpaces(s, p) > Len(s) THEN Len(s) ELSE SkipSpaces(s, p)

(* `- \[([ x])\]` at position p *)
Checkbox(s, p) ==
    /\ HasAt(s, p, <<"-", " ", "[">>)
    /\ p + 3 <= Len(s)
    /\ s[p + 3] \in {" ", "x"}
    /\ At(s, p + 4, "]")

NoMatch == [matched |-> FALSE]

(* a main-task pattern that wants whitespace after the dot:
   ^- \[([ x])\]\s*(\d+)\.\s+(.+)$ *)
task_pattern_gap(line) ==
    LET p == SkipSpaces(line, 6)
        q == SkipDigits(line, p)
    IN  IF /\ Checkbox(line, 1) /\ q > p /\ At(line, q, ".") /\ q + 1 < Len(line)
           /\ IsSpace(line[q + 1])
        THEN [matched |-> TRUE,
              group1 |-> <<line[4]>>,
              group2 |-> SubSeq(line, p, q - 1),
              group3 |-> SubSeq(line, RestStart(line, q + 1), Len(line))]
        ELSE NoMatch

(* task_pattern.match(line): ^- \[([ x])\]\s*(\d+)\.\s*(.+)$ *)
task_pattern(line) ==
    LET p == SkipSpaces(line, 6)
        q == SkipDigits(line, p)
    IN  IF Checkbox(line, 1) /\ q > p /\ At(line, q, ".") /\ q < Len(line)
        THEN [matched |-> TRUE,
              group1 |-> <<line[4]>>,
              group2 |-> SubSeq(line, p, q - 1),
              group3 |-> SubSeq(line, RestStart(line, q + 1), Len(line))]
        ELSE NoMatch

(* subtask_pattern.match(line): ^\s+- \[([ x])\]\*?\s*(\d+\.\d+)\s*(.+)$ ;
   when the second number runs to the end of the line its last digit is
   given up to (.+) *)
subtask_pattern(line) ==
    LET p == SkipSpaces(line, 1)
        a == IF At(line, p + 5, "*") THEN p + 6 ELSE p + 5
        c == SkipSpaces(line, a)
        d == SkipDigits(line, c)
        e == SkipDigits(line, d + 1)
    IN  IF p > 1 /\ Checkbox(line, p) /\ d > c /\ At(line, d, ".") /\ e > d + 1
        THEN IF e <= Len(line)
             THEN [matched |-> TRUE,
                   group1 |-> <<line[p + 3]>>,
                   group2 |-> SubSeq(line, c, e - 1),
                   group3 |-> SubSeq(line, RestStart(line, e), Len(line))]
             ELSE IF e > d + 2
                  THEN [matched |-> TRUE,
                        group1 |-> <<line[p + 3]>>,
                        group2 |-> SubSeq(line, c, e - 2),
                        group3 |-> <<line[Len(line)]>>]
                  ELSE NoMatch
        ELSE NoMatch

(* depends_pattern.match(line): ^\s+-?\s*_depends_on:\s*([^_]+)_ *)
depends_pattern(line) ==
    LET p == SkipSpaces(line, 1)
        a == IF At(line, p, "-") THEN p + 1 ELSE p
        b == SkipSpaces(line, a)
        c == b + 12
        r == SkipSpaces(line, c)
        u == SkipToUnderscore(line, c)
    IN  IF /\ p > 1
           /\ HasAt(line, b, <<"_", "d", "e", "p", "e", "n", "d", "s", "_", "o", "n", ":">>)
           /\ u > c
           /\ u <= Len(line)
        THEN [matched |-> TRUE,
              group1 |-> SubSeq(line, IF r < u THEN r ELSE u - 1, u - 1)]
        ELSE NoMatch

(* str.strip() *)
RECURSIVE LStrip(_)
LStrip(s) == IF s # <<>> /\ IsSpace(Head(s)) THEN LStrip(Tail(s)) ELSE s

RECURSIVE RStrip(_)
RStrip(s) ==
    IF s # <<>> /\ IsSpace(s[Len(s)]) THEN RStrip(SubSeq(s, 1, Len(s) - 1)) ELSE s

Strip(s) == RStrip(LStrip(s))

(* str.split(sep) for a one-character sep, from position p with the piece
   cur begun *)
RECURSIVE SplitFrom(_, _, _, _)
SplitFrom(s, sep, p, cur) ==
    IF p > Len(s) THEN <<cur>>
    ELSE IF s[p] = sep THEN <<cur>> \o SplitFrom(s, sep, p + 1, <<>>)
    ELSE SplitFrom(s, sep, p + 1, Append(cur, s[p]))

Split(s, sep) == SplitFrom(s, sep, 1, <<>>)

(* lines 86-87: [d.strip() for d in deps.split(',') if d.strip()] *)
DepIds(group) ==
    LET parts == Split(Strip(group), ",")
        stripped == [k \in DOMAIN parts |-> Strip(parts[k])]
    IN  SelectSeq(stripped, LAMBDA d : d # <<>>)

(* the subtask appended to the top-level list *)
AttachSubtaskTop(ts, cur, sub) == Append(ts, sub)

(* a subtask attached to the first task of the list instead of the current *)
AttachSubtaskFirst(ts, cur, sub) == [ts EXCEPT ![1].subtasks = Append(@, sub)]

(* line 80: current_task.subtasks.append(subtask) *)
AttachSubtask(ts, cur, sub) == [ts EXCEPT ![cur].subtasks = Append(@, sub)]

(* a dependency line that replaces the list instead of extending it *)
ExtendDependsReplace(ts, cur, dep_ids) == [ts EXCEPT ![cur].depends_on = dep_ids]

(* a dependency line that goes to the last subtask of the current task,
   when it has one *)
ExtendDependsLastSubtask(ts, cur, dep_ids) ==
    IF ts[cur].subtasks = <<>>
    THEN [ts EXCEPT ![cur].depends_on = @ \o dep_ids]
    ELSE [ts EXCEPT ![cur].subtasks[Len(ts[cur].subtasks)].depends_on = @ \o dep_ids]

(* line 88: current_task.depends_on.extend(dep_ids) *)
ExtendDepends(ts, cur, dep_ids) == [ts EXCEPT ![cur].depends_on = @ \o dep_ids]

----------------------------------------------------------------------------
(* Documents: at most MaxLines lines of the pool, joined by newlines *)

(* an open main task with id "1": '- [ ] 1. A' *)
LineTaskOpen == <<"-", " ", "[", " ", "]", " ", "1", ".", " ", "A">>

(* a completed main task with the same id "1": '- [x] 1. B' *)
LineTaskDone == <<"-", " ", "[", "x", "]", " ", "1", ".", " ", "B">>

(* an open main task with id "2": '- [ ] 2. C' *)
LineTaskTwo == <<"-", " ", "[", " ", "]", " ", "2", ".", " ", "C">>

(* a subtask: '  - [ ] 1.1 S' *)
LineSubtask == <<" ", " ", "-", " ", "[", " ", "]", " ", "1", ".", "1", " ", "S">>

(* a dependency declaration: '  - _depends_on: 1, 2_' *)
LineDepends == <<" ", " ", "-", " ", "_", "d", "e", "p", "e", "n", "d", "s", "_", "o", "n", ":", " ", "1", ",", " ", "2", "_">>

(* a header: '# H' *)
LineHeader == <<"#", " ", "H">>

(* a blank line: '' *)
LineBlank == <<>>

(* a checkbox without its space: '- [] 1. x' *)
LineNoSpaceBox == <<"-", " ", "[", "]", " ", "1", ".", " ", "x">>

(* a second dependency declaration, without the dash, with padded ids, an
   empty entry and a repeated id: '  _depends_on: 2 ,, 2_' *)
LineDependsMore == <<" ", " ", "_", "d", "e", "p", "e", "n", "d", "s", "_", "o", "n", ":", " ", "2", " ", ",", ",", " ", "2", "_">>

LinePool ==
    {LineTaskOpen, LineTaskDone, LineTaskTwo, LineSubtask, LineDepends,
     LineDependsMore, LineHeader, LineBlank, LineNoSpaceBox}

RECURSIVE JoinLines(_)
JoinLines(ls) ==
    IF ls = <<>> THEN <<>>
    ELSE IF Len(ls) = 1 THEN ls[1]
    ELSE ls[1] \o <<"\n">> \o JoinLines(Tail(ls))

Documents == {JoinLines(ls) : ls \in SeqsUpTo(LinePool, MaxLines)}

ParseInit ==
    /\ content \in Documents
    /\ tasks = <<>>
    /\ pc = "start"
    /\ fn = "none"
    /\ task_map = NoMap
    /\ i = 0
    /\ executable = <<>>
    /\ graph = NoGraph
    /\ in_degree = NoMap
    /\ queue = <<>>
    /\ result = <<>>
    /\ remaining = <<>>
    /\ completed_ids = {}
    /\ parallel_groups = <<>>
    /\ lines = <<>>
    /\ ln = 0
    /\ current_task = 0
    /\ other = NoFrame
    /\ cli = NoCli

(* a result list that outlives the call: a later parse goes on with what
   the name held before *)
KeptTaskList(held) == held

(* line 50: `tasks = []` binds a new empty list, whatever the name held *)
NewTaskList(held) == <<>>

(* parse_tasks, lines 50-60 *)
CallParse ==
    /\ pc = "start"
    /\ pc' = "parse_loop"
    /\ fn' = "parse_tasks"
    /\ tasks' = NewTaskList(tasks)
    /\ current_task' = 0
    /\ lines' = Split(content, "\n")
    /\ ln' = 1
    /\ UNCHANGED <<content, schedVars, other, cli>>

(* a loop body in which a line of no kind closes the current task *)
LineStepReset(ts, cur, line) ==
    LET task_match == task_pattern(line)
        subtask_match == subtask_pattern(line)
        depends_match == depends_pattern(line)
    IN  IF task_match.matched
        THEN [tasks |-> Append(ts, Task(task_match.group2,
                                        Strip(task_match.group3),
                                        task_match.group1 = <<"x">>)),
              current_task |-> Len(ts) + 1]
        ELSE IF subtask_match.matched /\ cur # 0
        THEN [tasks |-> AttachSubtask(ts, cur,
                                      Task(subtask_match.group2,
                                           Strip(subtask_match.group3),
                                           subtask_match.group1 = <<"x">>)),
              current_task |-> cur]
        ELSE IF depends_match.matched /\ cur # 0
        THEN [tasks |-> ExtendDepends(ts, cur, DepIds(depends_match.group1)),
              current_task |-> cur]
        ELSE [tasks |-> ts, current_task |-> 0]

(* a loop body in which a new main task starts with the depends_on of the
   task before it *)
LineStepInherit(ts, cur, line) ==
    LET task_match == task_pattern(line)
        subtask_match == subtask_pattern(line)
        depends_match == depends_pattern(line)
    IN  IF task_match.matched
        THEN [tasks |-> Append(ts, [Task(task_match.group2,
                                         Strip(task_match.group3),
                                         task_match.group1 = <<"x">>)
                                    EXCEPT !.depends_on =
                                        IF cur = 0 THEN <<>> ELSE ts[cur].depends_on]),
              current_task |-> Len(ts) + 1]
        ELSE IF subtask_match.matched /\ cur # 0
        THEN [tasks |-> AttachSubtask(ts, cur,
                                      Task(subtask_match.group2,
                                           Strip(subtask_match.group3),
                                           subtask_match.group1 = <<"x">>)),
              current_task |-> cur]
        ELSE IF depends_match.matched /\ cur # 0
        THEN [tasks |-> ExtendDepends(ts, cur, DepIds(depends_match.group1)),
              current_task |-> cur]
        ELSE [tasks |-> ts, current_task |-> cur]

(* the body of `for line in lines`, lines 63-88: the task list and the
   current-task pointer after the line *)
LineStep(ts, cur, line) ==
    LET task_match == task_pattern(line)
        subtask_match == subtask_pattern(line)
        depends_match == depends_pattern(line)
    IN  IF task_match.matched
        THEN [tasks |-> Append(ts, Task(task_match.group2,
                                        Strip(task_match.group3),
                                        task_match.group1 = <<"x">>)),
              current_task |-> Len(ts) + 1]
        ELSE IF subtask_match.matched /\ cur # 0
        THEN [tasks |-> AttachSubtask(ts, cur,
                                      Task(subtask_match.group2,
                                           Strip(subtask_match.group3),
                                           subtask_match.group1 = <<"x">>)),
              current_task |-> cur]
        ELSE IF depends_match.matched /\ cur # 0
        THEN [tasks |-> ExtendDepends(ts, cur, DepIds(depends_match.group1)),
              current_task |-> cur]
        ELSE [tasks |-> ts, current_task |-> cur]

(* one pass of `for line in lines`, lines 62-88 *)
ParseLine ==
    /\ pc = "parse_loop"
    /\ ln <= Len(lines)
    /\ LET after == LineStep(tasks, current_task, lines[ln])
       IN  /\ tasks' = after.tasks
           /\ current_task' = after.current_task
    /\ ln' = ln + 1
    /\ UNCHANGED <<pc, fn, content, lines, schedVars, other, cli>>

(* line 90 *)
ParseReturn ==
    /\ pc = "parse_loop"
    /\ ln > Len(lines)
    /\ pc' = "returned"
    /\ UNCHANGED <<tasks, fn, content, lines, ln, current_task, schedVars, other, cli>>

ParseNext ==
    \/ CallParse
    \/ ParseLine
    \/ ParseReturn

ParseSpec == ParseInit /\ [][ParseNext]_vars

(* the loop of lines 62-88 over the lines from position p on *)
RECURSIVE ParseFrom(_, _, _, _)
ParseFrom(ls, p, ts, cur) ==
    IF p > Len(ls) THEN ts
    ELSE LET after == LineStep(ts, cur, ls[p])
         IN  ParseFrom(ls, p + 1, after.tasks, after.current_task)

(* parse_tasks as a function of its argument, lines 48-90 *)
parse_tasks(text) == ParseFrom(Split(text, "\n"), 1, <<>>, 0)

----------------------------------------------------------------------------
(* Documents of line shapes: at most MaxShapeLines lines of a pool that adds
   unusual task lines and lines of no kind to the ordinary ones *)

MaxShapeLines == 3

(* a main-task line with an uppercase mark: '- [X] 1. C' *)
LineTaskUpper == <<"-", " ", "[", "X", "]", " ", "1", ".", " ", "C">>

(* a main-task line with nothing between the dot and the title: '- [ ] 1.T' *)
LineTaskNoGap == <<"-", " ", "[", " ", "]", " ", "1", ".", "T">>

(* an unindented line with a dotted id: '- [ ] 1.1 T' *)
LineTaskDotted == <<"-", " ", "[", " ", "]", " ", "1", ".", "1", " ", "T">>

(* a checkbox with another mark: '- [y] 1. x' *)
LineBadBox == <<"-", " ", "[", "y", "]", " ", "1", ".", " ", "x">>

(* a checkbox without a number: '- [ ] Z' *)
LineNoNumber == <<"-", " ", "[", " ", "]", " ", "Z">>

(* prose: 'text' *)
LineProse == <<"t", "e", "x", "t">>

(* a main-task line carrying the reference create_task appends:
   '- [ ] 1. A <!-- Issue #7 -->' *)
LineTaskIssue == <<"-", " ", "[", " ", "]", " ", "1", ".", " ", "A", " ", "<", "!", "-", "-", " ", "I", "s", "s", "u", "e", " ", "#", "7", " ", "-", "-", ">">>

ShapePool ==
    {LineTaskOpen, LineTaskDone, LineSubtask, LineDepends, LineHeader,
     LineBlank, LineNoSpaceBox, LineTaskUpper, LineTaskNoGap, LineTaskDotted,
     LineBadBox, LineNoNumber, LineProse, LineTaskIssue}

ShapeDocuments == {JoinLines(ls) : ls \in SeqsUpTo(ShapePool, MaxShapeLines)}

ShapeInit ==
    /\ content \in ShapeDocuments
    /\ tasks = <<>>
    /\ pc = "start"
    /\ fn = "none"
    /\ task_map = NoMap
    /\ i = 0
    /\ executable = <<>>
    /\ graph = NoGraph
    /\ in_degree = NoMap
    /\ queue = <<>>
    /\ result = <<>>
    /\ remaining = <<>>
    /\ completed_ids = {}
    /\ parallel_groups = <<>>
    /\ lines = <<>>
    /\ ln = 0
    /\ current_task = 0
    /\ other = NoFrame
    /\ cli = NoCli

ShapeSpec == ShapeInit /\ [][ParseNext]_vars

----------------------------------------------------------------------------
(* Two invocations, each on its own input, running in turns: the variables
   hold the invocation that runs, `other` the one that waits *)

MaxPairTasks == 2
MaxPairLines == 2

(* task "1" open, task "1" completed, and the open task "2" that depends
   on "1" *)
PairTaskPool ==
    {Task(<<"1">>, <<"T">>, FALSE),
     Task(<<"1">>, <<"T">>, TRUE),
     [Task(<<"2">>, <<"T">>, FALSE) EXCEPT !.depends_on = << <<"1">> >>]}

PairTaskLists == SeqsUpTo(PairTaskPool, MaxPairTasks)

PairDocuments ==
    {JoinLines(ls) :
        ls \in SeqsUpTo({LineTaskOpen, LineSubtask, LineDepends}, MaxPairLines)}

(* the variables of the running invocation *)
Frame ==
    [tasks |-> tasks, pc |-> pc, fn |-> fn, task_map |-> task_map, i |-> i,
     executable |-> executable, graph |-> graph, in_degree |-> in_degree,
     queue |-> queue, result |-> result, remaining |-> remaining,
     completed_ids |-> completed_ids, parallel_groups |-> parallel_groups,
     content |-> content, lines |-> lines, ln |-> ln,
     current_task |-> current_task]

(* an invocation before its call: a task list for a scheduler function or a
   text for the parser *)
StartFrames ==
    {[tasks |-> ts, pc |-> "start", fn |-> "none", task_map |-> NoMap, i |-> 0,
      executable |-> <<>>, graph |-> NoGraph, in_degree |-> NoMap,
      queue |-> <<>>, result |-> <<>>, remaining |-> <<>>,
      completed_ids |-> {}, parallel_groups |-> <<>>,
      content |-> <<>>, lines |-> <<>>, ln |-> 0, current_task |-> 0] :
        ts \in PairTaskLists}
    \cup
    {[tasks |-> <<>>, pc |-> "start", fn |-> "none", task_map |-> NoMap, i |-> 0,
      executable |-> <<>>, graph |-> NoGraph, in_degree |-> NoMap,
      queue |-> <<>>, result |-> <<>>, remaining |-> <<>>,
      completed_ids |-> {}, parallel_groups |-> <<>>,
      content |-> d, lines |-> <<>>, ln |-> 0, current_task |-> 0] :
        d \in PairDocuments}

PairInit ==
    /\ other \in StartFrames
    /\ \E f \in StartFrames :
        /\ tasks = f.tasks
        /\ content = f.content
    /\ pc = "start"
    /\ fn = "none"
    /\ task_map = NoMap
    /\ i = 0
    /\ executable = <<>>
    /\ graph = NoGraph
    /\ in_degree = NoMap
    /\ queue = <<>>
    /\ result = <<>>
    /\ remaining = <<>>
    /\ completed_ids = {}
    /\ parallel_groups = <<>>
    /\ lines = <<>>
    /\ ln = 0
    /\ current_task = 0
    /\ cli = NoCli

(* a current-task pointer kept at module level: the invocation that resumes
   finds the pointer of the one that ran *)
SharedCurrentTask(running, resumed) == running

(* line 51: current_task is a local of the call, so the invocation that
   resumes finds its own *)
OwnCurrentTask(running, resumed) == resumed

(* the running invocation is suspended after a step and the other resumes *)
Switch ==
    /\ other # NoFrame
    /\ other' = Frame
    /\ tasks' = other.tasks
    /\ current_task' = OwnCurrentTask(current_task, other.current_task)
    /\ pc' = other.pc
    /\ fn' = other.fn
    /\ task_map' = other.task_map
    /\ i' = other.i
    /\ executable' = other.executable
    /\ graph' = other.graph
    /\ in_degree' = other.in_degree
    /\ queue' = other.queue
    /\ result' = other.result
    /\ remaining' = other.remaining
    /\ completed_ids' = other.completed_ids
    /\ parallel_groups' = other.parallel_groups
    /\ content' = other.content
    /\ lines' = other.lines
    /\ ln' = other.ln
    /\ UNCHANGED cli

PairNext ==
    \/ CallExecutable
    \/ ExecutableStep
    \/ ExecutableReturn
    \/ CallTopological
    \/ TopologicalStep
    \/ TopologicalReturn
    \/ CallParallel
    \/ ParallelStep
    \/ ParallelReturn
    \/ CallParse
    \/ ParseLine
    \/ ParseReturn
    \/ Switch

PairSpec == PairInit /\ [][PairNext]_vars

----------------------------------------------------------------------------
(* main(): the command line, the file system and the exit status *)

MaxArgs == 3

(* lib/errors.py, lines 10-13 *)
EXIT_SUCCESS == 0
EXIT_ERROR == 1
EXIT_CONFIG_ERROR == 2

(* the words of a command line: a path, the three flags, --log-level and a
   level *)
ArgPool == {"tasks.md", "--json", "--next", "--parallel", "--log-level", "debug"}

ArgvPool == SeqsUpTo(ArgPool, MaxArgs)

(* arg.startswith('-'), on the words of ArgPool *)
StartsWithDash(arg) == arg \in {"--json", "--next", "--parallel", "--log-level"}

(* what open(tasks_file, 'r', encoding='utf-8') and f.read() meet *)
FileStates == {"regular", "missing", "denied", "directory", "undecodable"}

(* the text of the file: empty, without a task, with one task, and with a
   task that depends on itself *)
CliDocuments ==
    {<<>>, LineHeader, LineTaskOpen, JoinLines(<<LineTaskTwo, LineDepends>>)}

(* split_log_level: --log-level and its value are taken out of argv; a
   --log-level in last position is an error *)
RECURSIVE split_log_level(_, _, _)
split_log_level(argv, idx, acc) ==
    IF idx > Len(argv) THEN acc
    ELSE IF argv[idx] = "--log-level"
         THEN IF idx + 1 > Len(argv)
              THEN split_log_level(argv, idx + 1, [acc EXCEPT !.error = TRUE])
              ELSE split_log_level(argv, idx + 2,
                                   [acc EXCEPT !.level = argv[idx + 1]])
         ELSE split_log_level(argv, idx + 1,
                              [acc EXCEPT !.args = Append(@, argv[idx])])

(* lines 196-200: the first word that does not start with '-', <<>> for None *)
FirstPath(args) ==
    LET paths == SelectSeq(args, LAMBDA a : ~StartsWithDash(a))
    IN  IF paths = <<>> THEN <<>> ELSE <<Head(paths)>>

(* _parse_cli_args, lines 187-215: the options, or the ConfigError raised *)
parse_cli_args(argv) ==
    LET split == split_log_level(argv, 1, [level |-> "info", args |-> <<>>,
                                           error |-> FALSE])
    IN  IF split.error \/ FirstPath(split.args) = <<>>
        THEN [raised |-> "ConfigError"]
        ELSE [raised |-> "none",
              tasks_file |-> Head(FirstPath(split.args)),
              output_json |-> "--json" \in Range(split.args),
              show_next |-> "--next" \in Range(split.args),
              show_parallel |-> "--parallel" \in Range(split.args),
              log_level |-> split.level]

(* lines 228-236: what reading the file raises; only FileNotFoundError is
   turned into ConfigError *)
ReadRaises(file) ==
    CASE file = "regular" -> "none"
      [] file = "missing" -> "ConfigError"
      [] file = "denied" -> "PermissionError"
      [] file = "directory" -> "IsADirectoryError"
      [] file = "undecodable" -> "UnicodeDecodeError"

(* lines 279-285 with lib/errors.py 60-67 and 97-98: an AWKError leaves with
   its exit_code, anything else with that of ExecutionError *)
ExitCodeOf(raised) ==
    IF raised = "ConfigError" THEN EXIT_CONFIG_ERROR ELSE EXIT_ERROR

(* error.type of the JSON written to stderr *)
ErrorTypeOf(raised) ==
    IF raised = "ConfigError" THEN "config_error" ELSE "execution_error"

(* the run ends in the except clauses of lines 279-285 *)
ExitWith(raised) ==
    [stage |-> "exit", argv |-> cli.argv, file |-> cli.file,
     log_ok |-> cli.log_ok, raised |-> raised,
     exit_code |-> ExitCodeOf(raised), error_type |-> ErrorTypeOf(raised)]

CliInit ==
    /\ cli \in [stage : {"start"}, argv : ArgvPool, file : FileStates,
                 log_ok : BOOLEAN]
    /\ content \in CliDocuments
    /\ tasks = <<>>
    /\ pc = "start"
    /\ fn = "none"
    /\ task_map = NoMap
    /\ i = 0
    /\ executable = <<>>
    /\ graph = NoGraph
    /\ in_degree = NoMap
    /\ queue = <<>>
    /\ result = <<>>
    /\ remaining = <<>>
    /\ completed_ids = {}
    /\ parallel_groups = <<>>
    /\ lines = <<>>
    /\ ln = 0
    /\ current_task = 0
    /\ other = NoFrame

cliFrame == <<tasks, pc, fn, content, lines, ln, current_task, schedVars, other>>

(* lines 220-224 *)
CliArgs ==
    /\ cli.stage = "start"
    /\ LET opts == parse_cli_args(cli.argv)
       IN  cli' = IF opts.raised # "none" THEN ExitWith(opts.raised)
                  ELSE [stage |-> "logger", argv |-> cli.argv, file |-> cli.file,
                        log_ok |-> cli.log_ok, opts |-> opts]
    /\ UNCHANGED cliFrame

(* lines 225-227: Logger makes its directory and writes 'parse start' *)
CliLogger ==
    /\ cli.stage = "logger"
    /\ cli' = IF cli.log_ok THEN [cli EXCEPT !.stage = "read"]
              ELSE ExitWith("OSError")
    /\ UNCHANGED cliFrame

(* lines 228-236 *)
CliRead ==
    /\ cli.stage = "read"
    /\ cli' = IF ReadRaises(cli.file) = "none" THEN [cli EXCEPT !.stage = "run"]
              ELSE ExitWith(ReadRaises(cli.file))
    /\ UNCHANGED cliFrame

(* lines 238-278: parse, run the function the flags choose, print *)
CliRun ==
    /\ cli.stage = "run"
    /\ tasks' = parse_tasks(content)
    /\ cli' = [stage |-> "exit", argv |-> cli.argv, file |-> cli.file,
               log_ok |-> cli.log_ok, raised |-> "none",
               exit_code |-> EXIT_SUCCESS, error_type |-> "none",
               printed |-> IF cli.opts.show_next
                           THEN get_executable_tasks(tasks')
                           ELSE IF cli.opts.show_parallel
                           THEN get_parallel_tasks(tasks')
                           ELSE topological_sort(tasks')]
    /\ UNCHANGED <<pc, fn, content, lines, ln, current_task, schedVars, other>>

CliNext ==
    \/ CliArgs
    \/ CliLogger
    \/ CliRead
    \/ CliRun

CliSpec == CliInit /\ [][CliNext]_vars

----------------------------------------------------------------------------
(* Vocabulary of the properties *)

Returned(f) == pc = "returned" /\ fn = f

Indices == [n \in 1..Len(tasks) |-> n]

DistinctIds ==
    \A m, n \in DOMAIN tasks : m # n => tasks[m].id # tasks[n].id

Known(d) == \E m \in DOMAIN tasks : tasks[m].id = d

AllDepsKnown ==
    \A m \in DOMAIN tasks : \A d \in Range(tasks[m].depends_on) : Known(d)

(* task m lists the id of task n in its depends_on *)
Edge(m, n) == tasks[n].id \in Range(tasks[m].depends_on)

(* the edges as a set of pairs of task references *)
Edges == {e \in (DOMAIN tasks) \X (DOMAIN tasks) : Edge(e[1], e[2])}

(* a chain of k or fewer edges of R leads from m to n *)
RECURSIVE Reach(_, _, _, _)
Reach(R, m, n, k) ==
    /\ k > 0
    /\ \/ <<m, n>> \in R
       \/ \E x \in DOMAIN tasks : <<m, x>> \in R /\ Reach(R, x, n, k - 1)

OnCycle(R, m) == Reach(R, m, m, Len(tasks))

(* m lies on a cycle of R or depends, directly or through other tasks, on one *)
Stuck(R, m) ==
    \E n \in DOMAIN tasks :
        /\ OnCycle(R, n)
        /\ (m = n \/ Reach(R, m, n, Len(tasks)))

Acyclic == \A m \in DOMAIN tasks : ~OnCycle(Edges, m)

(* position of task reference n in the list s, 0 when absent *)
PosIn(s, n) == IF n \in Range(s) THEN CHOOSE p \in DOMAIN s : s[p] = n ELSE 0

----------------------------------------------------------------------------
(* get_executable_tasks *)

Blocked(n) ==
    \E d \in Range(tasks[n].depends_on) :
        \E m \in DOMAIN tasks : tasks[m].id = d /\ ~tasks[m].completed

ExecutableWanted(n) ==
    /\ ~tasks[n].completed
    /\ \A d \in Range(tasks[n].depends_on) :
        \/ ~Known(d)
        \/ \E m \in DOMAIN tasks : tasks[m].id = d /\ tasks[m].completed

(* C1: with pairwise distinct ids, get_executable_tasks returns exactly the
   tasks of the input, in document order, that are not completed and whose
   every dependency is an unknown id or the id of a completed task *)
C1_ExecutableIsFilter ==
    (Returned("get_executable_tasks") /\ DistinctIds)
        => executable = SelectSeq(Indices, ExecutableWanted)

(* three distinct tasks: one returned although it has a dependency (on a
   completed task), one left out because its dependency is not completed *)
C1_Witness ==
    /\ Returned("get_executable_tasks")
    /\ DistinctIds
    /\ Len(tasks) = 3
    /\ \E n \in Range(executable) : tasks[n].depends_on # <<>>
    /\ \E n \in DOMAIN tasks : ~tasks[n].completed /\ Blocked(n)

----------------------------------------------------------------------------
(* topological_sort *)

(* C2: in the result of topological_sort, a task whose dependency id is the
   id of a task of the result stands strictly after that task *)
C2_DependenciesFirst ==
    Returned("topological_sort") =>
        \A p, q \in DOMAIN result :
            tasks[result[q]].id \in Range(tasks[result[p]].depends_on) => q < p

(* all three tasks returned, in an order that is not the document order *)
C2_Witness ==
    /\ Returned("topological_sort")
    /\ Len(result) = 3
    /\ \E p, q \in DOMAIN result : Edge(result[p], result[q])
    /\ result # Indices

PlacedOnce(n) == Cardinality({p \in DOMAIN result : result[p] = n}) = 1

(* C3: with distinct ids and no dependency cycle, topological_sort returns
   every main task exactly once, the tasks that cite unknown ids included *)
C3_UnknownIdsSatisfied ==
    (Returned("topological_sort") /\ DistinctIds /\ Acyclic)
        => \A n \in DOMAIN tasks : PlacedOnce(n)

(* C4: with distinct ids and every dependency naming a main task,
   topological_sort returns, its result is shorter than its input exactly
   when the dependency graph has a cycle, and the tasks left out are those on
   a cycle or depending, directly or through other tasks, on one *)
C4_ShortIffCycle ==
    /\ [](Returned("topological_sort") /\ DistinctIds /\ AllDepsKnown
            => /\ Len(result) < Len(tasks) <=> ~Acyclic
               /\ \A n \in DOMAIN tasks :
                    IF Stuck(Edges, n) THEN n \notin Range(result) ELSE PlacedOnce(n))
    /\ (fn = "topological_sort" ~> pc = "returned")

(* a cycle of two tasks and a third task that is returned alone *)
C4_Witness ==
    /\ Returned("topological_sort")
    /\ DistinctIds
    /\ AllDepsKnown
    /\ Len(tasks) = 3
    /\ Len(result) = 1
    /\ \E m, n \in DOMAIN tasks : m # n /\ Edge(m, n) /\ Edge(n, m)

(* task n is not among the first p - 1 of the result and each of its
   dependencies is the id of one of them *)
ReadyAt(n, p) ==
    /\ \A q \in 1..(p - 1) : result[q] # n
    /\ \A d \in Range(tasks[n].depends_on) :
        \E q \in 1..(p - 1) : tasks[result[q]].id = d

SmallestReadyAt(p) ==
    /\ ReadyAt(result[p], p)
    /\ \A n \in DOMAIN tasks :
        ReadyAt(n, p) => ~StrLess(tasks[n].id, tasks[result[p]].id)

(* C5 as stated: at every position of the result stands the task with the
   smallest id, in string order, among the tasks not yet placed whose
   dependencies have all been placed *)
C5_SmallestReadyFirst ==
    Returned("topological_sort") => \A p \in DOMAIN result : SmallestReadyAt(p)

(* C5 amended: the same, for task lists with pairwise distinct ids *)
C5_SmallestReadyFirstDistinct ==
    (Returned("topological_sort") /\ DistinctIds)
        => \A p \in DOMAIN result : SmallestReadyAt(p)

(* "2" and "10" both ready from the start, "10" placed first although "2"
   comes first in the document *)
C5_Witness ==
    /\ Returned("topological_sort")
    /\ DistinctIds
    /\ \E m, n \in DOMAIN tasks :
        /\ m < n
        /\ tasks[m].id = <<"2">> /\ tasks[m].depends_on = <<>>
        /\ tasks[n].id = <<"1", "0">> /\ tasks[n].depends_on = <<>>
        /\ PosIn(result, n) > 0
        /\ PosIn(result, n) < PosIn(result, m)

----------------------------------------------------------------------------
(* get_parallel_tasks *)

Waves == DOMAIN parallel_groups

InWavesBefore(n, k) == \E j \in 1..(k - 1) : n \in Range(parallel_groups[j])

Placed(n) == \E k \in Waves : n \in Range(parallel_groups[k])

WaveOf(n) == CHOOSE k \in Waves : n \in Range(parallel_groups[k])

ReadyForWave(n, k) ==
    /\ ~tasks[n].completed
    /\ ~InWavesBefore(n, k)
    /\ \A d \in Range(tasks[n].depends_on) :
        \/ \E m \in DOMAIN tasks : tasks[m].id = d /\ tasks[m].completed
        \/ \E m \in DOMAIN tasks : tasks[m].id = d /\ InWavesBefore(m, k)
        \/ ~Known(d)

(* C6: with distinct ids, wave k holds exactly the non-completed tasks not
   placed in waves 1..k-1 whose every dependency is a completed task, a task
   of waves 1..k-1 or an unknown id *)
C6_WaveIsReadySet ==
    (Returned("get_parallel_tasks") /\ DistinctIds)
        => \A k \in Waves :
            Range(parallel_groups[k]) = {n \in DOMAIN tasks : ReadyForWave(n, k)}

(* two waves; the first holds a task that has a dependency, the second a
   task that waited for a task of the first *)
C6_Witness ==
    /\ Returned("get_parallel_tasks")
    /\ DistinctIds
    /\ Len(parallel_groups) = 2
    /\ \E n \in Range(parallel_groups[1]) : tasks[n].depends_on # <<>>
    /\ \E n \in Range(parallel_groups[2]) :
        \E m \in Range(parallel_groups[1]) : Edge(n, m)

(* C7: with distinct ids and an acyclic dependency graph, the waves together
   hold exactly the non-completed tasks, and a task's wave comes strictly
   after the wave of each of its dependencies that is placed in a wave *)
C7_WavesCoverAndOrder ==
    (Returned("get_parallel_tasks") /\ DistinctIds /\ Acyclic)
        => /\ UNION {Range(parallel_groups[k]) : k \in Waves}
                = {n \in DOMAIN tasks : ~tasks[n].completed}
           /\ \A n, m \in DOMAIN tasks :
                (Placed(n) /\ Placed(m) /\ Edge(n, m)) => WaveOf(m) < WaveOf(n)

(* a chain of three tasks placed in three waves *)
C7_Witness ==
    /\ Returned("get_parallel_tasks")
    /\ DistinctIds
    /\ Acyclic
    /\ Len(parallel_groups) = 3
    /\ \E n \in Range(parallel_groups[3]) :
        \E m \in Range(parallel_groups[2]) : Edge(n, m)

(* the edges between two tasks that are both not completed *)
OpenEdges ==
    {e \in Edges : ~tasks[e[1]].completed /\ ~tasks[e[2]].completed}

(* C8: with distinct ids, the non-completed tasks missing from every wave
   are exactly those on a cycle of non-completed tasks or depending on such a
   cycle through non-completed tasks *)
C8_DroppedAreCyclic ==
    (Returned("get_parallel_tasks") /\ DistinctIds)
        => \A n \in DOMAIN tasks :
            ~tasks[n].completed => (Placed(n) <=> ~Stuck(OpenEdges, n))

(* the loop broke off after one wave with a task left on a self-dependency
   and another left waiting for it *)
C8_Witness ==
    /\ Returned("get_parallel_tasks")
    /\ DistinctIds
    /\ Len(parallel_groups) = 1
    /\ Len(remaining) = 2
    /\ \E n \in Range(remaining) : <<n, n>> \in OpenEdges
    /\ \E n \in Range(remaining) : ~OnCycle(OpenEdges, n)

----------------------------------------------------------------------------
(* all three functions *)

(* C9: on every task list each of the three functions, once called, returns
   and never raises; on the empty list each returns an empty list *)
C9_TotalAndTerminating ==
    /\ (fn # "none" ~> pc = "returned")
    /\ [](pc # "raised")
    /\ [](pc = "returned" /\ tasks = <<>>
            => executable = <<>> /\ result = <<>> /\ parallel_groups = <<>>)

(* a call returned on a list with a duplicate id, a self-dependency and a
   dependency on an unknown id *)
C9_Witness ==
    /\ pc = "returned"
    /\ ~DistinctIds
    /\ \E n \in DOMAIN tasks : Edge(n, n)
    /\ \E n \in DOMAIN tasks : \E d \in Range(tasks[n].depends_on) : ~Known(d)

----------------------------------------------------------------------------
(* parse_tasks *)

(* the lines of the document that match the main-task pattern, in order *)
MainLines == SelectSeq(lines, LAMBDA l : task_pattern(l).matched)

(* C10: parse_tasks returns one top-level task per line matching the
   main-task pattern, in document order and with that line's id, title and
   checkbox, whether or not ids repeat; other lines add, remove and reorder
   nothing *)
C10_OneTaskPerMainLine ==
    Returned("parse_tasks") =>
        /\ Len(tasks) = Len(MainLines)
        /\ \A k \in DOMAIN tasks :
            /\ tasks[k].id = task_pattern(MainLines[k]).group2
            /\ tasks[k].title = Strip(task_pattern(MainLines[k]).group3)
            /\ tasks[k].completed = (task_pattern(MainLines[k]).group1 = <<"x">>)

(* two main-task lines with the same id, a subtask line and a line of no
   kind between them: two top-level tasks, both with id "1" *)
C10_Witness ==
    /\ Returned("parse_tasks")
    /\ lines = <<LineTaskOpen, LineSubtask, LineHeader, LineTaskDone>>
    /\ Len(tasks) = 2
    /\ tasks[1].id = <<"1">> /\ tasks[1].title = <<"A">> /\ ~tasks[1].completed
    /\ tasks[2].id = <<"1">> /\ tasks[2].title = <<"B">> /\ tasks[2].completed

(* the kind of a line: the first of the three patterns it matches *)
Kind(line) ==
    IF task_pattern(line).matched THEN "task"
    ELSE IF subtask_pattern(line).matched THEN "subtask"
    ELSE IF depends_pattern(line).matched THEN "depends"
    ELSE "other"

(* the number of main-task lines among the first j lines: the position, in
   the result, of the task opened by the nearest main-task line at or before
   line j, and 0 when there is none *)
OwnerOf(j) == Cardinality({p \in 1..j : Kind(lines[p]) = "task"})

(* the ids a dependency line of the pool declares, read off its text *)
DeclaredIds(line) ==
    CASE line = LineDepends -> << <<"1">>, <<"2">> >>
      [] line = LineDependsMore -> << <<"2">>, <<"2">> >>
      [] OTHER -> <<>>

(* the ids declared for the k-th main task by the first j lines *)
RECURSIVE DeclaredFor(_, _)
DeclaredFor(k, j) ==
    IF j = 0 THEN <<>>
    ELSE DeclaredFor(k, j - 1)
         \o (IF Kind(lines[j]) = "depends" /\ OwnerOf(j) = k
             THEN DeclaredIds(lines[j]) ELSE <<>>)

(* C11: the depends_on of a parsed main task is the concatenation, in
   document order, of the ids of every dependency line between its own line
   and the next main-task line, each id trimmed, empty entries dropped,
   repeated ids kept; a later dependency line adds to the earlier ones *)
C11_DependsAccumulate ==
    Returned("parse_tasks") =>
        \A k \in DOMAIN tasks : tasks[k].depends_on = DeclaredFor(k, Len(lines))

(* two dependency lines under the first task, the second with padding, an
   empty entry and a repeated id; the next main task gets none of them *)
C11_Witness ==
    /\ Returned("parse_tasks")
    /\ lines = <<LineTaskOpen, LineDepends, LineDependsMore, LineTaskTwo>>
    /\ tasks[1].depends_on = << <<"1">>, <<"2">>, <<"2">>, <<"2">> >>
    /\ tasks[2].depends_on = <<>>

(* the subtask a subtask line describes *)
SubtaskOf(line) ==
    [id |-> subtask_pattern(line).group2,
     title |-> Strip(subtask_pattern(line).group3),
     completed |-> subtask_pattern(line).group1 = <<"x">>,
     depends_on |-> <<>>,
     subtasks |-> <<>>]

(* the subtasks given to the k-th main task by the first j lines *)
RECURSIVE SubtasksFor(_, _)
SubtasksFor(k, j) ==
    IF j = 0 THEN <<>>
    ELSE SubtasksFor(k, j - 1)
         \o (IF Kind(lines[j]) = "subtask" /\ OwnerOf(j) = k
             THEN <<SubtaskOf(lines[j])>> ELSE <<>>)

(* the position of the first main-task line, Len(lines) + 1 when none *)
FirstMain ==
    IF \E j \in DOMAIN lines : Kind(lines[j]) = "task"
    THEN CHOOSE j \in DOMAIN lines :
            /\ Kind(lines[j]) = "task"
            /\ \A p \in 1..(j - 1) : Kind(lines[p]) # "task"
    ELSE Len(lines) + 1

(* the document from its first main-task line on *)
FromFirstMain == JoinLines(SubSeq(lines, FirstMain, Len(lines)))

(* C12: every subtask line and every dependency line is attached to the task
   opened by the nearest preceding main-task line and to no other; the lines
   before the first main-task line change nothing in the result *)
C12_AttachedToNearestMain ==
    Returned("parse_tasks") =>
        /\ \A k \in DOMAIN tasks :
            /\ tasks[k].subtasks = SubtasksFor(k, Len(lines))
            /\ tasks[k].depends_on = DeclaredFor(k, Len(lines))
        /\ tasks = parse_tasks(FromFirstMain)

(* a subtask line before the first main task is dropped; the subtask line
   after the second main task goes to that task and not to the first *)
C12_Witness ==
    /\ Returned("parse_tasks")
    /\ lines = <<LineSubtask, LineTaskOpen, LineTaskTwo, LineSubtask>>
    /\ Len(tasks) = 2
    /\ tasks[1].subtasks = <<>>
    /\ Len(tasks[2].subtasks) = 1
    /\ tasks[2].subtasks[1].id = <<"1", ".", "1">>

(* a line the main-task pattern matches, or the line with the uppercase mark *)
MainOrUpper(line) == Kind(line) = "task" \/ line = LineTaskUpper

(* C13: a main-task line with the checkbox '[X]' opens a task with completed
   true, as '[x]' does, and '[ ]' opens one with completed false *)
C13_UppercaseAccepted ==
    Returned("parse_tasks") =>
        /\ Len(tasks) = Cardinality({j \in DOMAIN lines : MainOrUpper(lines[j])})
        /\ \A j \in DOMAIN lines :
            LET k == Cardinality({p \in 1..j : MainOrUpper(lines[p])})
            IN  /\ lines[j] \in {LineTaskUpper, LineTaskDone} =>
                    tasks[k].id = <<"1">> /\ tasks[k].completed
                /\ lines[j] = LineTaskOpen =>
                    tasks[k].id = <<"1">> /\ ~tasks[k].completed

(* whitespace follows the dot that ends the id of a main-task line *)
SpaceAfterDot(line) ==
    LET q == SkipDigits(line, SkipSpaces(line, 6))
    IN  q < Len(line) /\ IsSpace(line[q + 1])

(* C14 as stated: only lines with whitespace between the dot and the text
   open a main task, so '- [ ] 1.T' and '- [ ] 1.1 T' open none *)
C14_DotThenSpace ==
    Returned("parse_tasks") =>
        Len(tasks) = Cardinality({j \in DOMAIN lines :
                                    Kind(lines[j]) = "task" /\ SpaceAfterDot(lines[j])})

(* the lines of the shape pool that open a main task *)
OpensMain(line) ==
    line \in {LineTaskOpen, LineTaskDone, LineTaskIssue, LineTaskNoGap,
              LineTaskDotted}

(* C14, amended: whitespace after the dot is optional; '- [ ] 1.T' opens the
   main task "1" titled 'T' and the unindented '- [ ] 1.1 T' opens the main
   task "1" titled '1 T' *)
C14_DotThenOptionalSpace ==
    Returned("parse_tasks") =>
        /\ Len(tasks) = Cardinality({j \in DOMAIN lines : OpensMain(lines[j])})
        /\ \A j \in DOMAIN lines :
            LET k == Cardinality({p \in 1..j : OpensMain(lines[p])})
            IN  /\ lines[j] = LineTaskNoGap =>
                    /\ tasks[k].id = <<"1">>
                    /\ tasks[k].title = <<"T">>
                /\ lines[j] = LineTaskDotted =>
                    /\ tasks[k].id = <<"1">>
                    /\ tasks[k].title = <<"1", " ", "T">>

(* both lines parsed: two main tasks with id "1" *)
C14_Witness ==
    /\ Returned("parse_tasks")
    /\ lines = <<LineTaskNoGap, LineTaskDotted>>
    /\ Len(tasks) = 2
    /\ tasks[1].title = <<"T">>
    /\ tasks[2].title = <<"1", " ", "T">>

(* the sequence s without its j-th element *)
Without(s, j) == SubSeq(s, 1, j - 1) \o SubSeq(s, j + 1, Len(s))

(* C15: parse_tasks never raises and walks the lines once; a line matching
   none of the three patterns adds nothing, so the result equals the result
   of parsing the text with that line deleted *)
C15_UnrecognisedIgnored ==
    /\ fn = "parse_tasks" => pc # "raised"
    /\ pc = "parse_loop" => ln \in 1..(Len(lines) + 1)
    /\ Returned("parse_tasks") =>
        \A j \in DOMAIN lines :
            Kind(lines[j]) = "other" =>
                tasks = parse_tasks(JoinLines(Without(lines, j)))

(* a line with the mark 'y' between a main task and its subtask: the subtask
   is attached as if the line were not there *)
C15_Witness ==
    /\ Returned("parse_tasks")
    /\ lines = <<LineTaskOpen, LineBadBox, LineSubtask>>
    /\ Len(tasks) = 1
    /\ Len(tasks[1].subtasks) = 1

(* the title of a main-task line of the shape pool: the text after the id,
   trimmed, without the issue reference *)
TitleWanted(line) ==
    CASE line = LineTaskOpen -> <<"A">>
      [] line = LineTaskDone -> <<"B">>
      [] line = LineTaskIssue -> <<"A">>
      [] line = LineTaskNoGap -> <<"T">>
      [] line = LineTaskDotted -> <<"1", " ", "T">>

(* C16: the title of a parsed task is the text after its id, trimmed, with
   the '<!-- Issue #N -->' reference that create_task appends removed *)
C16_TitleWithoutIssueRef ==
    Returned("parse_tasks") =>
        \A j \in DOMAIN lines :
            OpensMain(lines[j]) =>
                LET k == Cardinality({p \in 1..j : OpensMain(lines[p])})
                IN  k \in DOMAIN tasks /\ tasks[k].title = TitleWanted(lines[j])

----------------------------------------------------------------------------
(* the three functions and their input *)

(* C17: no step of get_executable_tasks, topological_sort or
   get_parallel_tasks, in any sequence of calls on a list, changes the list:
   the same tasks in the same order, each with the same id, title, completed,
   depends_on and subtasks *)
C17_InputUntouched == [][tasks' = tasks]_vars

(* get_parallel_tasks has returned two groups for a list whose tasks have
   subtasks: it has marked a group, whose tasks are still not completed *)
C17_Witness ==
    /\ Returned("get_parallel_tasks")
    /\ Len(parallel_groups) = 2
    /\ \E n \in DOMAIN tasks : tasks[n].subtasks # <<>>
    /\ \A n \in Range(parallel_groups[1]) : ~tasks[n].completed

----------------------------------------------------------------------------
(* two invocations *)

(* the invocation with variables f, if it has returned, holds the result its
   function gives for its input *)
AloneResult(f) ==
    f.pc = "returned" =>
        CASE f.fn = "get_executable_tasks" ->
                f.executable = get_executable_tasks(f.tasks)
          [] f.fn = "topological_sort" ->
                f.result = topological_sort(f.tasks)
          [] f.fn = "get_parallel_tasks" ->
                f.parallel_groups = get_parallel_tasks(f.tasks)
          [] f.fn = "parse_tasks" ->
                f.tasks = parse_tasks(f.content)
          [] OTHER -> TRUE

(* C18: of two invocations on inputs of their own, run in turns of one step
   in any order, each returns what it returns when run alone, and neither
   raises *)
C18_InterleavedAsAlone ==
    /\ AloneResult(Frame)
    /\ pc # "raised"
    /\ other # NoFrame => AloneResult(other) /\ other.pc # "raised"

(* a parser has returned a task with its subtask while the scheduler it took
   turns with waits in the middle of its loop *)
C18_Witness ==
    /\ Returned("parse_tasks")
    /\ Len(tasks) = 1
    /\ Len(tasks[1].subtasks) = 1
    /\ other # NoFrame
    /\ other.pc = "parallel_loop"
    /\ Len(other.parallel_groups) = 1
    /\ other.remaining # <<>>

(* C19: two parses of the same text, run one after the other or in turns,
   return equal results: as many top-level tasks, in the same order, with
   equal id, title, completed, depends_on and subtasks; neither result has
   anything of a list that existed before the call *)
C19_SameTextSameResult ==
    (/\ Returned("parse_tasks")
     /\ other # NoFrame
     /\ other.pc = "returned"
     /\ other.fn = "parse_tasks"
     /\ other.content = content)
        => tasks = other.tasks

(* both parses of '- [ ] 1. A' followed by a dependency line have returned *)
C19_Witness ==
    /\ Returned("parse_tasks")
    /\ other # NoFrame
    /\ other.pc = "returned"
    /\ other.fn = "parse_tasks"
    /\ content = JoinLines(<<LineTaskOpen, LineDepends>>)
    /\ other.content = content
    /\ Len(tasks) = 1
    /\ tasks[1].depends_on = << <<"1">>, <<"2">> >>
    /\ other.tasks = tasks

----------------------------------------------------------------------------
(* subtasks and the three functions *)

(* an id that no task and no subtask has *)
UnknownId == <<"9">>

(* the list ts with every subtask taken away and every dependency on the id
   of a subtask turned into one on UnknownId *)
WithoutSubtasks(ts) ==
    [n \in DOMAIN ts |->
        [ts[n] EXCEPT
            !.subtasks = <<>>,
            !.depends_on = [k \in DOMAIN ts[n].depends_on |->
                              IF ts[n].depends_on[k] = SubId THEN UnknownId
                              ELSE ts[n].depends_on[k]]]]

(* C20: each of the three functions returns top-level tasks only, and what
   it returns for a list is what it returns for the same list without its
   subtasks, a dependency on a subtask's id counting as one on an id nobody
   has *)
C20_SubtasksPlayNoPart ==
    /\ Returned("get_executable_tasks") =>
        /\ Range(executable) \subseteq DOMAIN tasks
        /\ executable = get_executable_tasks(WithoutSubtasks(tasks))
    /\ Returned("topological_sort") =>
        /\ Range(result) \subseteq DOMAIN tasks
        /\ result = topological_sort(WithoutSubtasks(tasks))
    /\ Returned("get_parallel_tasks") =>
        /\ \A g \in DOMAIN parallel_groups :
            Range(parallel_groups[g]) \subseteq DOMAIN tasks
        /\ parallel_groups = get_parallel_tasks(WithoutSubtasks(tasks))

(* task "1" has the open subtask "1.1"; a task that depends on "1.1" is
   returned as executable all the same *)
C20_Witness ==
    /\ Returned("get_executable_tasks")
    /\ \E m \in DOMAIN tasks :
        /\ tasks[m].subtasks # <<>>
        /\ ~tasks[m].subtasks[1].completed
    /\ \E n \in Range(executable) : tasks[n].depends_on = <<SubId>>

----------------------------------------------------------------------------
(* main() *)

(* the command line names no tasks file *)
NoPathGiven ==
    FirstPath(split_log_level(cli.argv, 1, [level |-> "info", args |-> <<>>,
                                            error |-> FALSE]).args) = <<>>

(* --log-level has its value and the log directory can be written *)
LoggingFine ==
    /\ ~split_log_level(cli.argv, 1, [level |-> "info", args |-> <<>>,
                                      error |-> FALSE]).error
    /\ cli.log_ok

(* C21: a missing tasks-file argument and every failure to read the file
   (no such path, permission denied, a directory, undecodable bytes) end the
   run with a configuration error and a non-zero status; an empty file, a
   file without tasks and a cyclic graph end it with status 0 *)
C21_ReadFailuresAreConfig ==
    (cli.stage = "exit" /\ LoggingFine) =>
        IF NoPathGiven \/ cli.file # "regular"
        THEN cli.error_type = "config_error" /\ cli.exit_code # EXIT_SUCCESS
        ELSE cli.exit_code = EXIT_SUCCESS

(* C22: without a tasks-file argument, or with the path of a file that does
   not exist, the run ends with status 1 *)
C22_ExitsWithOne ==
    (/\ cli.stage = "exit"
     /\ \/ NoPathGiven
        \/ LoggingFine /\ cli.file = "missing")
        => cli.exit_code = EXIT_ERROR

----------------------------------------------------------------------------
(* get_parallel_tasks and the other two functions *)

(* C23: with pairwise distinct ids, the first wave of get_parallel_tasks is
   the list get_executable_tasks returns, same tasks in the same order, and
   there is no wave exactly when get_executable_tasks returns no task *)
C23_FirstWaveIsExecutable ==
    /\ (Returned("get_parallel_tasks") /\ DistinctIds) =>
        /\ (parallel_groups = <<>>) <=> (get_executable_tasks(tasks) = <<>>)
        /\ parallel_groups # <<>> =>
            parallel_groups[1] = get_executable_tasks(tasks)
    /\ (Returned("get_executable_tasks") /\ DistinctIds) =>
        /\ (executable = <<>>) <=> (get_parallel_tasks(tasks) = <<>>)
        /\ executable # <<>> => get_parallel_tasks(tasks)[1] = executable

(* three distinct tasks, one completed; the first wave holds the other two,
   one of them depending on the completed one, and they are the executable
   tasks *)
C23_Witness ==
    /\ Returned("get_parallel_tasks")
    /\ DistinctIds
    /\ Len(tasks) = 3
    /\ \E n \in DOMAIN tasks : tasks[n].completed
    /\ Len(parallel_groups) = 1
    /\ Len(parallel_groups[1]) = 2
    /\ \E n \in Range(parallel_groups[1]) : tasks[n].depends_on # <<>>
    /\ parallel_groups[1] = get_executable_tasks(tasks)

----------------------------------------------------------------------------
(* several tasks with one id *)

(* the last task, in document order, with the id d *)
LastWithId(d) ==
    CHOOSE n \in DOMAIN tasks :
        /\ tasks[n].id = d
        /\ \A m \in DOMAIN tasks : tasks[m].id = d => m <= n

(* C24: when ids repeat, get_executable_tasks reads a dependency on an id as
   one on the last task with that id, get_parallel_tasks takes it as
   satisfied once any task with that id is completed or in an earlier wave,
   and topological_sort returns, of the tasks with one id, the last only *)
C24_RepeatedIds ==
    /\ Returned("get_executable_tasks") =>
        \A n \in DOMAIN tasks :
            n \in Range(executable) <=>
                /\ ~tasks[n].completed
                /\ \A d \in Range(tasks[n].depends_on) :
                    Known(d) => tasks[LastWithId(d)].completed
    /\ Returned("get_parallel_tasks") =>
        \A k \in Waves :
            Range(parallel_groups[k]) = {n \in DOMAIN tasks : ReadyForWave(n, k)}
    /\ Returned("topological_sort") =>
        /\ \A p \in DOMAIN result : result[p] = LastWithId(tasks[result[p]].id)
        /\ \A p, q \in DOMAIN result : result[p] = result[q] => p = q

(* two tasks with id "1", the first completed and the second not, and a task
   that depends on "1": it is not executable, yet get_parallel_tasks puts it
   in its first wave *)
C24_Witness ==
    /\ Returned("get_executable_tasks")
    /\ Len(tasks) = 3
    /\ tasks[1].id = <<"1">> /\ tasks[1].completed
    /\ tasks[2].id = <<"1">> /\ ~tasks[2].completed
    /\ tasks[3].depends_on = << <<"1">> >> /\ ~tasks[3].completed
    /\ tasks[3].id = <<"2">>
    /\ 3 \notin Range(executable)
    /\ 3 \in Range(get_parallel_tasks(tasks)[1])
    /\ topological_sort(tasks) = <<2, 3>>

----------------------------------------------------------------------------
(* the waves of get_parallel_tasks *)

(* the largest wave index among the placed dependencies of n, 0 without one *)
LastDependencyWave(n) ==
    LET ws == {WaveOf(m) : m \in {x \in DOMAIN tasks : Edge(n, x) /\ Placed(x)}}
    IN  IF ws = {} THEN 0 ELSE CHOOSE w \in ws : \A v \in ws : v <= w

(* C25: with distinct ids, a task that is not completed is in wave 1 iff
   none of its dependencies is a main task that is not completed; a task of
   a wave k > 1 has a dependency in wave k - 1, and the wave of every placed
   task is 1 plus the largest wave of its dependencies *)
C25_EarliestWave ==
    (Returned("get_parallel_tasks") /\ DistinctIds) =>
        /\ \A n \in DOMAIN tasks :
            ~tasks[n].completed =>
                ((1 \in Waves /\ n \in Range(parallel_groups[1])) <=> ~Blocked(n))
        /\ \A k \in Waves : \A n \in Range(parallel_groups[k]) :
            /\ k > 1 => \E m \in Range(parallel_groups[k - 1]) : Edge(n, m)
            /\ k = 1 + LastDependencyWave(n)

(* three waves: a chain of three tasks *)
C25_Witness ==
    /\ Returned("get_parallel_tasks")
    /\ DistinctIds
    /\ Len(parallel_groups) = 3
    /\ \E n \in Range(parallel_groups[3]) : LastDependencyWave(n) = 2

(* the waves built so far are well formed *)
WavesWellFormed ==
    /\ \A k \in Waves :
        /\ parallel_groups[k] # <<>>
        /\ \A a, b \in DOMAIN parallel_groups[k] :
            a < b => parallel_groups[k][a] < parallel_groups[k][b]
        /\ \A n \in Range(parallel_groups[k]) : ~tasks[n].completed
    /\ \A k, l \in Waves :
        k # l => Range(parallel_groups[k]) \cap Range(parallel_groups[l]) = {}

(* one pass of the loop of get_parallel_tasks *)
LoopShrinksAndGrows ==
    (pc = "parallel_loop") =>
        /\ Range(remaining') \subseteq Range(remaining)
        /\ Len(remaining') <= Len(remaining)
        /\ completed_ids \subseteq completed_ids'
        /\ (parallel_groups' # parallel_groups =>
                /\ Len(remaining') < Len(remaining)
                /\ completed_ids' # completed_ids \/ ~DistinctIds)

(* C26: at every point of get_parallel_tasks, and so in every result, each
   wave is non-empty, its tasks are in document order without repetition,
   none of them is completed and no task is in two waves; every pass of the
   loop leaves in remaining only tasks that were there and in the set of
   satisfied ids every id that was there *)
C26_WaveInvariants ==
    /\ [](fn = "get_parallel_tasks" => WavesWellFormed)
    /\ [][LoopShrinksAndGrows]_vars

(* a result of two waves, the first of two tasks, after a pass that took
   tasks out of remaining *)
C26_Witness ==
    /\ Returned("get_parallel_tasks")
    /\ Len(parallel_groups) = 2
    /\ Len(parallel_groups[1]) = 2
    /\ remaining = <<>>
    /\ Cardinality(completed_ids) = 3

----------------------------------------------------------------------------
(* a task that lists its own id *)

SelfDependent(n) == Edge(n, n)

(* m is n or reaches n along the dependency edges *)
DependsOnto(m, n) == m = n \/ Reach(Edges, m, n, Len(tasks))

SelfDependentHeldBack ==
    /\ fn = "get_executable_tasks" =>
        \A n \in DOMAIN tasks :
            (SelfDependent(n) /\ ~tasks[n].completed) => n \notin Range(executable)
    /\ fn = "get_parallel_tasks" =>
        \A n \in DOMAIN tasks :
            (SelfDependent(n) /\ ~tasks[n].completed) => ~Placed(n)
    /\ fn = "topological_sort" =>
        \A n, m \in DOMAIN tasks :
            (SelfDependent(n) /\ DependsOnto(m, n)) => m \notin Range(result)

(* C27 as stated: a main task that lists its own id is, while not completed,
   never returned by get_executable_tasks and never placed in a wave, and,
   completed or not, neither it nor a task that depends on it through other
   tasks is in the result of topological_sort *)
C27_SelfDependencyIsCycle == SelfDependentHeldBack

(* C27, amended: the same for task lists with pairwise distinct ids *)
C27_SelfDependencyIsCycleDistinct == DistinctIds => SelfDependentHeldBack

(* topological_sort has returned for distinct ids, a completed task that
   lists its own id and a task that depends on it, and has placed a third *)
C27_Witness ==
    /\ Returned("topological_sort")
    /\ DistinctIds
    /\ \E n, m \in DOMAIN tasks :
        /\ n # m
        /\ SelfDependent(n)
        /\ tasks[n].completed
        /\ Edge(m, n)
    /\ result # <<>>

----------------------------------------------------------------------------
(* topological_sort and the completed flags *)

(* the task lists that differ from ts in completed flags only *)
FlagVariants(ts) ==
    {[n \in DOMAIN ts |-> [ts[n] EXCEPT !.completed = (n \in S)]] :
        S \in SUBSET (DOMAIN ts)}

(* C28: the result of topological_sort is the one it gives for every task
   list that differs in completed flags only; a completed task of a list
   with distinct, known ids and no cycle is in the result; a completed
   dependency of a placed task is placed before it; a completed task on a
   cycle is left out together with the tasks that depend on it *)
C28_CompletionNotRead ==
    Returned("topological_sort") =>
        /\ \A ts \in FlagVariants(tasks) : topological_sort(ts) = result
        /\ (DistinctIds /\ AllDepsKnown /\ Acyclic) =>
            \A n \in DOMAIN tasks : tasks[n].completed => n \in Range(result)
        /\ \A m, n \in DOMAIN tasks :
            (Edge(m, n) /\ tasks[n].completed /\ m \in Range(result)) =>
                /\ LastWithId(tasks[n].id) \in Range(result)
                /\ PosIn(result, LastWithId(tasks[n].id)) < PosIn(result, m)
        /\ \A m, n \in DOMAIN tasks :
            (tasks[n].completed /\ OnCycle(Edges, n) /\ DependsOnto(m, n)) =>
                m \notin Range(result)

(* a completed task placed before the open task that depends on it, and a
   completed task on a cycle *)
C28_Witness ==
    /\ Returned("topological_sort")
    /\ \E m, n \in DOMAIN tasks :
        /\ Edge(m, n)
        /\ tasks[n].completed
        /\ ~tasks[m].completed
        /\ m \in Range(result)
    /\ \E n \in DOMAIN tasks : tasks[n].completed /\ OnCycle(Edges, n)

----------------------------------------------------------------------------
(* the current-task pointer of parse_tasks *)

(* the pointer is unset while the list is empty and is its last element
   afterwards *)
PointerIsLast == current_task = Len(tasks)

(* one line of the scan: the list only grows at its end and no task but
   the one the pointer ends on is changed; a dependency line that follows a
   subtask line extends the depends_on of the task pointed at and leaves
   its subtasks alone *)
OnlyCurrentGains ==
    (pc = "parse_loop" /\ ln <= Len(lines)) =>
        /\ Len(tasks') >= Len(tasks)
        /\ \A k \in DOMAIN tasks : k # current_task' => tasks'[k] = tasks[k]
        /\ (/\ ln > 1
            /\ Kind(lines[ln]) = "depends"
            /\ Kind(lines[ln - 1]) = "subtask"
            /\ current_task # 0) =>
                /\ current_task' = current_task
                /\ tasks'[current_task].depends_on =
                       tasks[current_task].depends_on \o DeclaredIds(lines[ln])
                /\ tasks'[current_task].subtasks = tasks[current_task].subtasks

SubtasksAreLeaves ==
    \A k \in DOMAIN tasks : \A n \in DOMAIN tasks[k].subtasks :
        /\ tasks[k].subtasks[n].depends_on = <<>>
        /\ tasks[k].subtasks[n].subtasks = <<>>

(* C29: at every step of the line scan the current-task pointer is unset
   with an empty task list or is the last task of the list, and a line
   changes no other task; so every subtask of a parse result has an empty
   depends_on and no subtasks, and a dependency line after a subtask line
   is added to the main task that holds the subtask *)
C29_PointerIsLastTask ==
    /\ [](fn = "parse_tasks" => (PointerIsLast /\ SubtasksAreLeaves))
    /\ [][OnlyCurrentGains]_vars

(* a dependency line after a subtask line, then a second main task: the
   ids are on the first task, whose subtask has none *)
C29_Witness ==
    /\ Returned("parse_tasks")
    /\ lines = <<LineTaskOpen, LineSubtask, LineDepends, LineTaskTwo>>
    /\ current_task = 2
    /\ tasks[1].depends_on = << <<"1">>, <<"2">> >>
    /\ Len(tasks[1].subtasks) = 1
    /\ tasks[1].subtasks[1].depends_on = <<>>

----------------------------------------------------------------------------
(* parsing a document in two parts *)

(* the lines before line j and the lines from line j on, as documents *)
DocumentBefore(j) == JoinLines(SubSeq(lines, 1, j - 1))

DocumentFrom(j) == JoinLines(SubSeq(lines, j, Len(lines)))

(* C30: for every main-task line of the document, the parse result is the
   result of parsing the lines before it followed by the result of parsing
   the lines from it on, task for task with their subtasks and depends_on *)
C30_SplitAtMainTask ==
    Returned("parse_tasks") =>
        \A j \in DOMAIN lines :
            Kind(lines[j]) = "task" =>
                tasks = parse_tasks(DocumentBefore(j)) \o parse_tasks(DocumentFrom(j))

(* a first part with a task and its dependency line, a second part with a
   task and its subtask *)
C30_Witness ==
    /\ Returned("parse_tasks")
    /\ lines = <<LineTaskOpen, LineDepends, LineTaskTwo, LineSubtask>>
    /\ parse_tasks(DocumentBefore(3)) = <<tasks[1]>>
    /\ parse_tasks(DocumentFrom(3)) = <<tasks[2]>>
    /\ tasks[1].depends_on # <<>>
    /\ tasks[2].depends_on = <<>>
    /\ Len(tasks[2].subtasks) = 1

====
